---- MODULE Spec2Model ----
(***************************************************************************)
(* fastqp get_metrics (src/fastqp/cli.py): sampling stride, the streaming  *)
(* aggregation loop over the subsampled reads, the derived statistics and  *)
(* the tidy text report.  Python 3 semantics are modelled (true division,  *)
(* lazy map).  fastqd pfd (src/fastqp/fastqd.py): the split of the spot    *)
(* id range into one block per fastq-dump worker.                          *)
(*                                                                         *)
(* A Python dict is a function whose DOMAIN is the dict's key set; a       *)
(* defaultdict inserts a missing key on every subscript, reads included.   *)
(* A str is a sequence of one-character strings.  The iteration order of a *)
(* dict or set is not modelled: blocks iterate in a canonical order.       *)
(***************************************************************************)
EXTENDS Integers, Sequences, FiniteSets, TLC

\* ------------------------------------------------------------------ bounds
MaxReads == 2        \* reads the sampled stream yields at most
MaxLeft == 2         \* leftlimit ranges over 0..MaxLeft
MaxRight == 2        \* rightlimit ranges over -1..MaxRight
MaxEst == 2          \* est_nlines ranges over None, 0..MaxEst
kmer == 2            \* kmer length (argparse choices 2..7)
StrideMaxEst == 7    \* est_nlines of the estimator alone: None, 0..StrideMaxEst
StrideMaxBin == 3    \* binsize of the estimator alone: 0..StrideMaxBin
StrideMaxNreads == 3 \* nreads of the estimator alone: 1..StrideMaxNreads
MaxStart == 3        \* pfd: start ranges over 1..MaxStart
MaxEnd == 7          \* pfd: end ranges over start - 1..MaxEnd
MaxThreads == 4      \* pfd: threads ranges over 1..MaxThreads

\* est_nlines = None (streamed or gzipped input with an explicit bin size)
None == -1

\* ------------------------------------------------------------ Python values
Min(a, b) == IF a < b THEN a ELSE b

\* seq[a:b] for 0 <= a and 0 <= b: never raises, clips to the length
Slice(s, a, b) == SubSeq(s, a + 1, Min(b, Len(s)))

\* seq[::-1]
Reverse(s) == [i \in 1..Len(s) |-> s[Len(s) + 1 - i]]

\* d.get(k, 0): a read that inserts nothing
Get(d, k) == IF k \in DOMAIN d THEN d[k] ELSE 0

\* defaultdict(int): d[k] += 1
Inc(d, k) == IF k \in DOMAIN d THEN [d EXCEPT ![k] = @ + 1] ELSE d @@ (k :> 1)

\* defaultdict(int): the read d[k], which inserts k -> 0 when k is missing
Touch(d, k) == IF k \in DOMAIN d THEN d ELSE d @@ (k :> 0)

\* defaultdict(lambda: defaultdict(int)): d[p][s] += 1
Inc2(d, p, s) ==
    IF p \in DOMAIN d THEN [d EXCEPT ![p] = Inc(@, s)] ELSE d @@ (p :> (s :> 1))

\* the inner dict d[p], empty when p is missing
Get2Dict(d, p) == IF p \in DOMAIN d THEN d[p] ELSE <<>>

Get2(d, p, s) == IF p \in DOMAIN d THEN Get(d[p], s) ELSE 0

RECURSIVE SumOver(_, _)
SumOver(d, ks) ==
    IF ks = {} THEN 0
    ELSE LET k == CHOOSE x \in ks : TRUE IN d[k] + SumOver(d, ks \ {k})

\* sum(d.values())
SumValues(d) == SumOver(d, DOMAIN d)

\* seq.count(b)
RECURSIVE Count(_, _)
Count(s, b) ==
    IF s = <<>> THEN 0 ELSE (IF Head(s) = b THEN 1 ELSE 0) + Count(Tail(s), b)

\* ord() of the quality characters the reads use
Ord == ("#" :> 35) @@ ("5" :> 53) @@ ("I" :> 73)

\* a quality tally key: the character before the re-keying, the int after
ChrKey(c) == <<"chr", c>>
IntKey(k) == <<"int", k>>

\* -------------------------------------------------------------------- reads
\* md: the reference parse_md() derives, or "KeyError" when the MD tag is missing
FastqRead(s, q) ==
    [seq |-> s, qual |-> q, sam |-> FALSE, mapped |-> FALSE, reverse |-> FALSE,
     md |-> "KeyError"]

SamRead(s, q, m, r, md) ==
    [seq |-> s, qual |-> q, sam |-> TRUE, mapped |-> m, reverse |-> r, md |-> md]

FastqPool ==
    { FastqRead(<<"A", "C", "G">>, <<"I", "5", "#">>),
      FastqRead(<<"C", "G">>, <<"I", "I">>),
      FastqRead(<<"N">>, <<"#">>),
      FastqRead(<<>>, <<>>) }

SamPool ==
    { SamRead(<<"A", "C", "G">>, <<"I", "5", "#">>, TRUE, FALSE, <<"A", "C", "G">>),
      SamRead(<<"A", "C", "G">>, <<"I", "5", "#">>, TRUE, TRUE, <<"A", "T", "G">>),
      SamRead(<<"C", "A">>, <<"5", "I">>, TRUE, FALSE, <<"N", "T">>),
      SamRead(<<"G", "T">>, <<"I", "I">>, FALSE, FALSE, "KeyError") }

NoRead == FastqRead(<<>>, <<>>)

\* ---------------------------------------------------------------- variables
VARIABLES
    pc,               \* position in get_metrics
    exit_msg,         \* the sys.exit message or uncaught exception, "" while running
    ext_sam,          \* ext in ['.sam', '.bam']: the reader yields Sam records
    est_nlines, binsize, nreads, n,
    count_duplicates, pybloom,      \* pybloom: the import at line 144 succeeds
    leftlimit, rightlimit,
    args,             \* the global name args read at line 157: "undefined" (the module
                      \* never binds it), or the role filter of the object bound to it
    read,             \* the loop variable
    act_nlines, percent_complete, duplicates, bloom_filter,
    read_len, cycle_nuc, cycle_qual, cycle_gc, cycle_kmers, cycle_mismatch,
    positions, bases, quantiles, observed_expected, pos_gc,
    text,             \* the lines written to the text output, in order
    taken,            \* history: reads taken from the sampled stream
    retained,         \* history: reads that reached the tallies
    cover,            \* history: position -> retained reads whose trimmed window covers it
    hits,             \* history: tested sequences that had been inserted before
    loop_end,         \* history: the tallies when the stream was exhausted
    start, end,       \* pfd: the first and the last spot id to dump
    threads,          \* pfd: args.threads, the number of fastq-dump workers
    blocks,           \* pfd: the list split_blocks returned, <<>> before the call
    ps                \* pfd: the -N and -X spot ids of the workers started, in order

config == <<ext_sam, est_nlines, binsize, nreads, count_duplicates, pybloom,
            leftlimit, rightlimit, args>>
tallies == <<read_len, cycle_nuc, cycle_qual, cycle_gc, cycle_kmers, cycle_mismatch>>
counters == <<duplicates, bloom_filter>>
derived == <<positions, bases, quantiles, observed_expected, pos_gc>>
history == <<taken, retained, cover, hits, loop_end>>
dump == <<start, end, threads, blocks, ps>>
vars == <<pc, exit_msg, config, n, read, act_nlines, percent_complete, tallies,
          counters, derived, text, history, dump>>

EmptyMismatch == [r \in {"C", "G", "A", "T"} |-> <<>>]

TallyRecord ==
    [read_len |-> read_len, cycle_nuc |-> cycle_nuc, cycle_qual |-> cycle_qual,
     cycle_gc |-> cycle_gc, cycle_kmers |-> cycle_kmers,
     cycle_mismatch |-> cycle_mismatch]

InitState ==
    /\ exit_msg = ""
    /\ n = 0
    /\ read = NoRead
    /\ act_nlines = 0
    /\ percent_complete = 0
    /\ duplicates = 0
    /\ bloom_filter = {}
    /\ read_len = <<>>
    /\ cycle_nuc = <<>>
    /\ cycle_qual = <<>>
    /\ cycle_gc = <<>>
    /\ cycle_kmers = <<>>
    /\ cycle_mismatch = EmptyMismatch
    /\ positions = <<>>
    /\ bases = {}
    /\ quantiles = <<>>
    /\ observed_expected = <<>>
    /\ pos_gc = <<>>
    /\ text = <<>>
    /\ taken = 0
    /\ retained = 0
    /\ cover = <<>>
    /\ hits = 0
    /\ loop_end = <<>>

\* get_metrics runs in a process that dumps nothing
NoDump == start = 1 /\ end = 1 /\ threads = 1 /\ blocks = <<>> /\ ps = <<>>

Init ==
    /\ InitState
    /\ NoDump
    /\ pc = "estimate_done"
    /\ ext_sam \in BOOLEAN
    /\ est_nlines \in (IF ext_sam THEN {} ELSE {None}) \cup 0..MaxEst
    /\ binsize = 0
    /\ nreads = 1
    /\ count_duplicates \in BOOLEAN
    /\ pybloom \in (IF count_duplicates THEN BOOLEAN ELSE {TRUE})
    /\ leftlimit \in 0..MaxLeft
    /\ rightlimit \in -1..MaxRight
    /\ args \in (IF ext_sam THEN {"undefined", "none", "aligned_only", "unaligned_only"}
                 ELSE {"undefined"})

\* ------------------------------------------------------- sampling estimator
\* mutant of sampling_n: the quotient is not clamped to 1
sampling_n_unclamped(est, bin, nr) ==
    IF est = None
    THEN (IF bin # 0 THEN bin ELSE 1)
    ELSE IF bin # 0 THEN bin ELSE est \div nr

\* lines 85-86, 103-106 (no estimate: the override, else 1) and lines 113-122
sampling_n(est, bin, nr) ==
    IF est = None
    THEN (IF bin # 0 THEN bin ELSE 1)
    ELSE IF bin # 0
         THEN bin
         ELSE LET nf == est \div nr IN IF nf >= 1 THEN nf ELSE 1

\* lines 112 and 148: the sys.exit messages
EmptyInputExit == "The input file appears empty. Please check the file for data."
MissingCapabilityExit == "--count-duplicates option requires 'pybloom' package."

\* mutant of SetBinSize: the empty input is not detected
SetBinSizeNoEmptyCheck ==
    /\ pc = "estimate_done"
    /\ pc' = "setup"
    /\ n' = sampling_n(est_nlines, binsize, nreads)
    /\ UNCHANGED <<exit_msg, config, dump, read, act_nlines, percent_complete, tallies,
                   counters, derived, text, history>>

\* lines 111-125: the empty-input exit, else the stride
SetBinSize ==
    /\ pc = "estimate_done"
    /\ IF est_nlines = 0
       THEN /\ pc' = "exit"
            /\ exit_msg' = EmptyInputExit
            /\ n' = n
       ELSE /\ pc' = "setup"
            /\ exit_msg' = exit_msg
            /\ n' = sampling_n(est_nlines, binsize, nreads)
    /\ UNCHANGED <<config, dump, read, act_nlines, percent_complete, tallies, counters,
                   derived, text, history>>

\* lines 127-152: the reader, the empty tallies, the duplicate set, the counters
SetUp ==
    /\ pc = "setup"
    /\ read_len' = <<>>
    /\ cycle_nuc' = <<>>
    /\ cycle_qual' = <<>>
    /\ cycle_gc' = <<>>
    /\ cycle_kmers' = <<>>
    /\ cycle_mismatch' = EmptyMismatch
    /\ IF count_duplicates /\ ~pybloom
       THEN /\ pc' = "exit"
            /\ exit_msg' = MissingCapabilityExit
            /\ UNCHANGED <<duplicates, bloom_filter, percent_complete>>
       ELSE /\ pc' = "loop"
            /\ exit_msg' = exit_msg
            /\ bloom_filter' = {}
            /\ duplicates' = 0
            /\ percent_complete' = 10
    /\ UNCHANGED <<config, dump, n, read, act_nlines, derived, text, history>>

\* ------------------------------------------------------ streaming aggregator
Pool == IF ext_sam THEN SamPool ELSE FastqPool

\* lines 157-160: the role filters
RoleSkip(r) ==
    \/ args = "aligned_only" /\ ~r.mapped
    \/ args = "unaligned_only" /\ r.mapped

\* lines 161-169: sequencing order
Oriented(r, s) == IF r.sam /\ r.reverse THEN Reverse(s) ELSE s

\* mutant of Trim: the slice starts at leftlimit instead of leftlimit - 1
TrimFromLeftlimit(s, ll, rl) ==
    IF ll = 1 /\ rl < 0 THEN s
    ELSE IF ll >= 1 /\ rl > 0 THEN Slice(s, ll, rl)
    ELSE IF ll > 1 /\ rl < 0 THEN Slice(s, ll, Len(s))
    ELSE s

\* lines 173-189: the cycle window; a slice never raises IndexError
Trim(s, ll, rl) ==
    IF ll = 1 /\ rl < 0 THEN s
    ELSE IF ll >= 1 /\ rl > 0 THEN Slice(s, ll - 1, rl)
    ELSE IF ll > 1 /\ rl < 0 THEN Slice(s, ll - 1, Len(s))
    ELSE s

\* zip(a, b): as long as the shorter one
ZipLen(a, b) == Min(Len(a), Len(b))

\* fastqp.gc: the integer GC percentage of a non-empty sequence
gc(s) == (100 * (Count(s, "G") + Count(s, "C"))) \div Len(s)

\* mutant of TallyGC: a read without G or C is left out of the histogram
TallyGCSkipZero(d, s) == IF gc(s) = 0 THEN d ELSE Inc(d, gc(s))

\* line 193: cycle_gc[gc(seq)] += 1
TallyGC(d, s) == Inc(d, gc(s))

\* line 196: seq in bloom_filter.  An inserted sequence is always reported present;
\* one never inserted may be reported present too (a false positive)
BloomContains(b, s) == IF s \in b THEN {TRUE} ELSE {TRUE, FALSE}

\* fastqp.window: the contiguous substrings of length k, in order
window(s, k) ==
    IF Len(s) < k THEN <<>> ELSE [i \in 1..(Len(s) - k + 1) |-> SubSeq(s, i, i + k - 1)]

\* mutant of TallyCycle: the cycle is counted from leftlimit + 1
RECURSIVE TallyCycleFromOne(_, _, _, _)
TallyCycleFromOne(d, syms, ll, j) ==
    IF j > Len(syms) THEN d
    ELSE TallyCycleFromOne(Inc2(d, ll + j, syms[j]), syms, ll, j + 1)

\* for i, x in enumerate(syms): d[ll + i][x] += 1   (i is 0-based, j = i + 1)
RECURSIVE TallyCycle(_, _, _, _)
TallyCycle(d, syms, ll, j) ==
    IF j > Len(syms) THEN d
    ELSE TallyCycle(Inc2(d, ll + j - 1, syms[j]), syms, ll, j + 1)

\* lines 215-220: a mismatch is tallied under the reference base; a reference
\* base that is no key of cycle_mismatch raises KeyError, which is passed over
RECURSIVE TallyMismatch(_, _, _, _, _)
TallyMismatch(d, s, ref, ll, j) ==
    IF j > ZipLen(s, ref) THEN d
    ELSE LET d1 == IF s[j] # ref[j] /\ ref[j] \in DOMAIN d
                   THEN [d EXCEPT ![ref[j]] = Inc2(@, ll + j - 1, s[j])]
                   ELSE d
         IN TallyMismatch(d1, s, ref, ll, j + 1)

\* lines 224-231: the progress notice, in exact arithmetic
Progress(pct, act, est) ==
    IF est # None /\ act * 100 >= pct * est THEN pct + 10 ELSE pct

\* history: one more retained read over the positions ll .. ll + len - 1
RECURSIVE Covered(_, _, _)
Covered(c, ll, len) ==
    IF len = 0 THEN c ELSE Covered(Inc(c, ll + len - 1), ll, len - 1)

\* line 157: a Sam record evaluates args, which this module never binds
LoopNameError ==
    /\ pc = "loop"
    /\ taken < MaxReads
    /\ \E r \in Pool :
        /\ r.sam /\ args = "undefined"
        /\ read' = r
    /\ taken' = taken + 1
    /\ pc' = "exit"
    /\ exit_msg' = "NameError"
    /\ UNCHANGED <<config, dump, n, act_nlines, percent_complete, tallies, counters,
                   derived, text, retained, cover, hits, loop_end>>

\* lines 157-160: a read the role filter drops: continue
LoopRoleSkip ==
    /\ pc = "loop"
    /\ taken < MaxReads
    /\ \E r \in Pool :
        /\ r.sam /\ args # "undefined" /\ RoleSkip(r)
        /\ read' = r
    /\ taken' = taken + 1
    /\ UNCHANGED <<pc, exit_msg, config, dump, n, act_nlines, percent_complete, tallies,
                   counters, derived, text, retained, cover, hits, loop_end>>

\* mutant of LoopEmpty: the empty read is dropped without being counted
LoopEmptyNotCounted ==
    /\ pc = "loop"
    /\ taken < MaxReads
    /\ \E r \in Pool :
        /\ ~(r.sam /\ (args = "undefined" \/ RoleSkip(r)))
        /\ Len(Trim(Oriented(r, r.seq), leftlimit, rightlimit)) = 0
        /\ read' = r
    /\ taken' = taken + 1
    /\ UNCHANGED <<pc, exit_msg, config, dump, n, act_nlines, percent_complete, tallies,
                   counters, derived, text, retained, cover, hits, loop_end>>

\* lines 190-192: nothing is left of the read after the window
LoopEmpty ==
    /\ pc = "loop"
    /\ taken < MaxReads
    /\ \E r \in Pool :
        /\ ~(r.sam /\ (args = "undefined" \/ RoleSkip(r)))
        /\ Len(Trim(Oriented(r, r.seq), leftlimit, rightlimit)) = 0
        /\ read' = r
    /\ taken' = taken + 1
    /\ act_nlines' = act_nlines + n
    /\ UNCHANGED <<pc, exit_msg, config, dump, n, percent_complete, tallies, counters,
                   derived, text, retained, cover, hits, loop_end>>

\* lines 193-232: a retained read
LoopTally ==
    /\ pc = "loop"
    /\ taken < MaxReads
    /\ \E r \in Pool :
        LET seq == Trim(Oriented(r, r.seq), leftlimit, rightlimit)
            qual == Trim(Oriented(r, r.qual), leftlimit, rightlimit)
            m == ZipLen(seq, qual)
        IN  /\ ~(r.sam /\ (args = "undefined" \/ RoleSkip(r)))
            /\ Len(seq) # 0
            /\ read' = r
            /\ cycle_gc' = TallyGC(cycle_gc, seq)
            /\ IF count_duplicates
               THEN \E present \in BloomContains(bloom_filter, seq) :
                       IF present
                       THEN /\ duplicates' = duplicates + 1
                            /\ hits' = IF seq \in bloom_filter THEN hits + 1 ELSE hits
                            /\ bloom_filter' = bloom_filter
                       ELSE /\ bloom_filter' = bloom_filter \cup {seq}
                            /\ UNCHANGED <<duplicates, hits>>
               ELSE UNCHANGED <<duplicates, hits, bloom_filter>>
            /\ cycle_nuc' = TallyCycle(cycle_nuc, SubSeq(seq, 1, m), leftlimit, 1)
            /\ cycle_qual' = TallyCycle(cycle_qual,
                                        [j \in 1..m |-> ChrKey(qual[j])], leftlimit, 1)
            /\ read_len' = Inc(read_len, Len(qual))
            /\ cycle_kmers' = TallyCycle(cycle_kmers, window(seq, kmer), leftlimit, 1)
            /\ cycle_mismatch' =
                   IF r.sam /\ r.mapped /\ r.md # "KeyError"
                   THEN TallyMismatch(cycle_mismatch, seq, r.md, leftlimit, 1)
                   ELSE cycle_mismatch
            /\ cover' = Covered(cover, leftlimit, Len(seq))
    /\ percent_complete' = Progress(percent_complete, act_nlines, est_nlines)
    /\ act_nlines' = act_nlines + n
    /\ taken' = taken + 1
    /\ retained' = retained + 1
    /\ UNCHANGED <<pc, exit_msg, config, dump, n, derived, text, loop_end>>

\* line 154: the sampled stream is exhausted
LoopEnd ==
    /\ pc = "loop"
    /\ pc' = "positions"
    /\ loop_end' = TallyRecord
    /\ UNCHANGED <<exit_msg, config, dump, n, read, act_nlines, percent_complete, tallies,
                   counters, derived, text, taken, retained, cover, hits>>

\* -------------------------------------------------------- derived statistics
\* sorted(keys): the ints of S in ascending order
RECURSIVE Sorted(_)
Sorted(S) ==
    IF S = {} THEN <<>>
    ELSE LET m == CHOOSE x \in S : \A y \in S : x <= y IN <<m>> \o Sorted(S \ {m})

\* the canonical order that stands for the iteration order of a set of bases
BaseOrder == <<"A", "C", "G", "T", "N">>
BaseRank(b) == CHOOSE i \in 1..Len(BaseOrder) : BaseOrder[i] = b

\* lines 237-238: every base seen at any cycle
AllKeys(d) == UNION {DOMAIN d[p] : p \in DOMAIN d}

\* mutant of ReKey: the offset 33 is not subtracted
ReKeyNoOffset(v) ==
    [k \in {IntKey(Ord[q[2]]) : q \in DOMAIN v} |->
        LET q == CHOOSE x \in DOMAIN v : IntKey(Ord[x[2]]) = k IN v[q]]

\* lines 246-247: v[ord(str(q)) - 33] = v.pop(q) for every key q of v
ReKey(v) ==
    [k \in {IntKey(Ord[q[2]] - 33) : q \in DOMAIN v} |->
        LET q == CHOOSE x \in DOMAIN v : IntKey(Ord[x[2]] - 33) = k IN v[q]]

quantile_values == <<5, 25, 50, 75, 95>>

\* line 248: percentile() is a library call; its value is left uninterpreted
percentile(pos, p) == <<"percentile", pos, p>>

\* line 262: sum(l * n for l, n in read_len.items())
RECURSIVE SequencedBases(_, _)
SequencedBases(d, ks) ==
    IF ks = {} THEN 0
    ELSE LET k == CHOOSE x \in ks : TRUE IN k * d[k] + SequencedBases(d, ks \ {k})

\* line 30: base_probs 0.25,0.25,0.25,0.25,0.1 for A,T,C,G,N, as 1/4 and 1/10
InvProb == ("A" :> 4) @@ ("T" :> 4) @@ ("C" :> 4) @@ ("G" :> 4) @@ ("N" :> 10)

\* lines 267-268: 1 / expected_fraction, the product of 1/p over the kmer's bases
RECURSIVE InvExpectedFraction(_)
InvExpectedFraction(k) ==
    IF k = <<>> THEN 1 ELSE InvProb[Head(k)] * InvExpectedFraction(Tail(k))

\* lines 265-266: the subscript cycle_kmers[i][k_mer] inserts the kmer at every cycle
RECURSIVE TouchKmers(_, _)
TouchKmers(d, ks) ==
    IF ks = {} THEN d
    ELSE LET k == CHOOSE x \in ks : TRUE
         IN TouchKmers([p \in DOMAIN d |-> Touch(d[p], k)], ks \ {k})

\* line 270: the sum of the kmer's counts over the cycles
RECURSIVE KmerTotal(_, _, _)
KmerTotal(d, k, cs) ==
    IF cs = {} THEN 0
    ELSE LET p == CHOOSE x \in cs : TRUE IN Get(d[p], k) + KmerTotal(d, k, cs \ {p})

\* lines 269-270: observed / expected as the fraction num / den
ObservedExpected(d, rl) ==
    [k \in AllKeys(d) |->
        [num |-> KmerTotal(d, k, DOMAIN d) * InvExpectedFraction(k),
         den |-> SequencedBases(rl, DOMAIN rl)]]

\* lines 279-282: the subscripts insert C, G, A, T at cycle i
TouchGC(v) == Touch(Touch(Touch(Touch(v, "C"), "G"), "A"), "T")

\* lines 278-285: GC% of one cycle as the fraction num / den; 0 on ZeroDivisionError
PosGC(v) ==
    LET gcs == Get(v, "C") + Get(v, "G")
        all == Get(v, "C") + Get(v, "G") + Get(v, "A") + Get(v, "T")
    IN IF all = 0 THEN [num |-> 0, den |-> 1] ELSE [num |-> 100 * gcs, den |-> all]

\* lines 234-285.  map() at line 240 is lazy and is never consumed; the adapter kmer
\* set and the regression that flags biased kmers read the tallies and feed only the
\* plots and warnings
DerivedStatistics ==
    /\ pc = "positions"
    /\ LET pos == Sorted(DOMAIN cycle_qual)
       IN /\ positions' = pos
          /\ bases' = AllKeys(cycle_nuc)
          /\ cycle_qual' = [p \in DOMAIN cycle_qual |-> ReKey(cycle_qual[p])]
          /\ quantiles' = [i \in 1..Len(pos) |->
                             [j \in 1..5 |-> percentile(pos[i], quantile_values[j])]]
          /\ observed_expected' = ObservedExpected(cycle_kmers, read_len)
          /\ cycle_kmers' = TouchKmers(cycle_kmers, AllKeys(cycle_kmers))
          /\ pos_gc' = [i \in 1..Len(pos) |-> PosGC(Get2Dict(cycle_nuc, pos[i]))]
          /\ cycle_nuc' = [p \in DOMAIN cycle_nuc \cup DOMAIN cycle_qual |->
                             IF p \in DOMAIN cycle_qual
                             THEN TouchGC(Get2Dict(cycle_nuc, p))
                             ELSE cycle_nuc[p]]
    /\ pc' = "report"
    /\ UNCHANGED <<exit_msg, config, dump, n, read, act_nlines, percent_complete, read_len,
                   cycle_gc, cycle_mismatch, counters, text, history>>

\* ------------------------------------------------------------------ report
\* one tidy line: the block it belongs to, its column, position and value
Line(b, c, p, v) == [block |-> b, column |-> c, pos |-> p, value |-> v]

\* lines 288-289
ReadsBlock == << Line("reads", "reads", "None", act_nlines) >>

\* lines 291-293
ReadLenBlock ==
    LET ks == Sorted(DOMAIN read_len)
    IN [i \in 1..Len(ks) |-> Line("read_len", "read_len", ks[i], read_len[ks[i]])]

quantile_columns == <<"q05", "q25", "q50", "q75", "q95">>

\* lines 295-310: five lines per position
QuantileBlock ==
    [i \in 1..(5 * Len(positions)) |->
        LET p == ((i - 1) \div 5) + 1
            j == ((i - 1) % 5) + 1
        IN Line("quantile", quantile_columns[j], positions[p], quantiles[p][j])]

BaseSeq == SelectSeq(BaseOrder, LAMBDA b : b \in bases)

\* lines 311-315: one run of lines per base
NucBlock ==
    [i \in 1..(Len(BaseSeq) * Len(positions)) |->
        LET b == BaseSeq[((i - 1) \div Len(positions)) + 1]
            p == positions[((i - 1) % Len(positions)) + 1]
        IN Line("nuc", b, p, Get2(cycle_nuc, p, b))]

\* lines 313-315: the subscript cycle_nuc[position][base] inserts the base
RECURSIVE TouchBases(_, _)
TouchBases(v, bs) ==
    IF bs = {} THEN v
    ELSE LET b == CHOOSE x \in bs : TRUE IN TouchBases(Touch(v, b), bs \ {b})

\* a list subscript l[j]: in range for -len <= j < len, counted from the end for j < 0
InRange(l, j) == -Len(l) <= j /\ j < Len(l)
Item(l, j) == IF j >= 0 THEN l[j + 1] ELSE l[Len(l) + j + 1]

\* line 319: the list subscript taken for a position
PosGcIndex(position) == position - 1

\* lines 316-319: the lines written before an IndexError, if any
RECURSIVE PosGcBlock(_)
PosGcBlock(i) ==
    IF i > Len(positions) \/ ~InRange(pos_gc, PosGcIndex(positions[i])) THEN <<>>
    ELSE << Line("pos_gc", "pos_gc", positions[i],
                 Item(pos_gc, PosGcIndex(positions[i]))) >> \o PosGcBlock(i + 1)

PosGcRaises == \E i \in 1..Len(positions) : ~InRange(pos_gc, PosGcIndex(positions[i]))

\* line 320: range(101)
GcBuckets == 101

\* lines 320-323
ReadGcBlock ==
    [i \in 1..GcBuckets |-> Line("read_gc", "read_gc", i - 1, Get(cycle_gc, i - 1))]

\* lines 322-323: the subscript cycle_gc[i] inserts every percentage
TouchRange(d, k) == [i \in DOMAIN d \cup 0..k |-> Get(d, i)]

\* the canonical order that stands for the iteration order of the kmer set
RECURSIVE KmerRank(_)
KmerRank(k) ==
    IF k = <<>> THEN 0
    ELSE BaseRank(Head(k)) * (6 ^ (Len(k) - 1)) + KmerRank(Tail(k))

\* mutant of KmerBefore: descending order of ratio
KmerBeforeDescending(k1, k2) ==
    \/ observed_expected[k2].num * observed_expected[k1].den
           < observed_expected[k1].num * observed_expected[k2].den
    \/ /\ observed_expected[k1].num * observed_expected[k2].den
           = observed_expected[k2].num * observed_expected[k1].den
       /\ KmerRank(k1) <= KmerRank(k2)

\* line 324: key=lambda x: x[1], ascending; sorted() keeps the order of equal keys
RatioLess(a, b) == a.num * b.den < b.num * a.den
KmerBefore(k1, k2) ==
    \/ RatioLess(observed_expected[k1], observed_expected[k2])
    \/ /\ ~RatioLess(observed_expected[k2], observed_expected[k1])
       /\ KmerRank(k1) <= KmerRank(k2)

RECURSIVE SortedKmers(_)
SortedKmers(S) ==
    IF S = {} THEN <<>>
    ELSE LET m == CHOOSE x \in S : \A y \in S : KmerBefore(x, y)
         IN <<m>> \o SortedKmers(S \ {m})

\* lines 324-327
KmerBlock ==
    LET ks == SortedKmers(DOMAIN observed_expected)
    IN [i \in 1..Len(ks) |-> Line("kmer", ks[i], "None", observed_expected[ks[i]])]

\* lines 329-331: duplicates / act_nlines as a fraction
DuplicateBlock ==
    IF count_duplicates /\ act_nlines # 0
    THEN << Line("duplicate", "duplicate", "None",
                 [num |-> duplicates, den |-> act_nlines]) >>
    ELSE <<>>

\* lines 287-370: the tidy text, then the figures, warnings and the return.  An
\* IndexError at line 319 or a ZeroDivisionError at line 331 ends the process with
\* the lines written so far
Report ==
    /\ pc = "report"
    /\ cycle_nuc' = [p \in DOMAIN cycle_nuc |->
                        IF p \in DOMAIN cycle_qual THEN TouchBases(cycle_nuc[p], bases)
                        ELSE cycle_nuc[p]]
    /\ IF PosGcRaises
       THEN /\ text' = text \o ReadsBlock \o ReadLenBlock \o QuantileBlock \o NucBlock
                            \o PosGcBlock(1)
            /\ cycle_gc' = cycle_gc
            /\ pc' = "exit"
            /\ exit_msg' = "IndexError"
       ELSE /\ cycle_gc' = TouchRange(cycle_gc, GcBuckets - 1)
            /\ text' = text \o ReadsBlock \o ReadLenBlock \o QuantileBlock \o NucBlock
                            \o PosGcBlock(1) \o ReadGcBlock \o KmerBlock
                            \o DuplicateBlock
            /\ IF count_duplicates /\ act_nlines = 0
               THEN pc' = "exit" /\ exit_msg' = "ZeroDivisionError"
               ELSE pc' = "done" /\ exit_msg' = exit_msg
    /\ UNCHANGED <<config, dump, n, read, act_nlines, percent_complete, read_len, cycle_qual,
                   cycle_kmers, cycle_mismatch, counters, derived, history>>

Next ==
    \/ SetBinSize
    \/ SetUp
    \/ LoopNameError
    \/ LoopRoleSkip
    \/ LoopEmpty
    \/ LoopTally
    \/ LoopEnd
    \/ DerivedStatistics
    \/ Report

Spec == Init /\ [][Next]_vars

\* the sampling estimator alone, over a range of its three inputs (Init leaves the
\* override out and fixes nreads = 1, so that the stride there is est_nlines)
InitStride ==
    /\ InitState
    /\ NoDump
    /\ pc = "estimate_done"
    /\ ext_sam = FALSE
    /\ est_nlines \in {None} \cup 0..StrideMaxEst
    /\ binsize \in 0..StrideMaxBin
    /\ nreads \in 1..StrideMaxNreads
    /\ count_duplicates = FALSE
    /\ pybloom = TRUE
    /\ leftlimit = 1
    /\ rightlimit = -1
    /\ args = "undefined"

NextStride == SetBinSize

SpecStride == InitStride /\ [][NextStride]_vars

\* ------------------------------------------------------- fastqd: pfd
\* int(a / b) for b > 0: the quotient truncated towards zero
IntDiv(a, b) == IF a >= 0 THEN a \div b ELSE -((-a) \div b)

\* fastqd.py lines 52-55: the loop body for i, ..., n_pieces - 1; rem is
\* total % n_pieces, added to the upper end of the last block
RECURSIVE append_blocks(_, _, _, _, _, _)
append_blocks(out, last, i, avg, rem, n_pieces) ==
    IF i >= n_pieces THEN out
    ELSE append_blocks(Append(out, << last,
                                      last + avg - 1
                                        + (IF i = n_pieces - 1 THEN rem ELSE 0) >>),
                       last + avg, i + 1, avg, rem, n_pieces)

\* mutant of split_blocks: the remainder is not added to the last block
split_blocks_no_remainder(s0, e0, n_pieces) ==
    append_blocks(<<>>, s0, 0, IntDiv(e0 - s0 + 1, n_pieces), 0, n_pieces)

\* fastqd.py lines 47-56, s0 and e0 standing for the parameters start and end
split_blocks(s0, e0, n_pieces) ==
    LET total == e0 - s0 + 1
    IN append_blocks(<<>>, s0, 0, IntDiv(total, n_pieces), total % n_pieces, n_pieces)

\* pfd after lines 18-21: start is at least 1, end may lie below start when maxSpotId
\* does or the run has no spots
InitBlocks ==
    /\ InitState
    /\ pc = "pfd"
    /\ ext_sam = FALSE
    /\ est_nlines = None
    /\ binsize = 0
    /\ nreads = 1
    /\ count_duplicates = FALSE
    /\ pybloom = TRUE
    /\ leftlimit = 1
    /\ rightlimit = -1
    /\ args = "undefined"
    /\ start \in 1..MaxStart
    /\ end \in (start - 1)..MaxEnd
    /\ threads \in 1..MaxThreads
    /\ blocks = <<>>
    /\ ps = <<>>

\* fastqd.py line 23
SplitBlocks ==
    /\ pc = "pfd"
    /\ blocks' = split_blocks(start, end, threads)
    /\ pc' = "dump"
    /\ UNCHANGED <<exit_msg, config, n, read, act_nlines, percent_complete, tallies,
                   counters, derived, text, history, start, end, threads, ps>>

\* fastqd.py lines 27-31: worker i is started on the spot ids blocks[i]
StartWorker ==
    /\ pc = "dump"
    /\ Len(ps) < threads
    /\ ps' = Append(ps, blocks[Len(ps) + 1])
    /\ UNCHANGED <<pc, exit_msg, config, n, read, act_nlines, percent_complete, tallies,
                   counters, derived, text, history, start, end, threads, blocks>>

NextBlocks == SplitBlocks \/ StartWorker

SpecBlocks == InitBlocks /\ [][NextBlocks]_vars

\* ------------------------------------------------------------------ claims
\* a step of the aggregation loop that took a read from the stream
TookRead == pc = "loop" /\ taken' = taken + 1

FilterActive == args \in {"aligned_only", "unaligned_only"}

\* C1: for aligned input with a role filter active, a read the filter drops leaves
\* every tally, the duplicate counter and the duplicate set unchanged, and the
\* logical read counter act_nlines still advances by the stride n.
C1_RoleSkipAdvancesCounter ==
    [][(TookRead /\ read'.sam /\ FilterActive /\ RoleSkip(read'))
         => (UNCHANGED <<tallies, counters>> /\ act_nlines' = act_nlines + n)]_vars

ReachedWindow(r) == ~(r.sam /\ (args = "undefined" \/ RoleSkip(r)))

\* the 1-based cycles of a read of length len inside [leftlimit, rightlimit],
\* a negative rightlimit standing for the read's end
Window(len) ==
    {p \in 1..len : leftlimit <= p /\ (rightlimit < 0 \/ p <= rightlimit)}

TrimmedSeq(r) == Trim(Oriented(r, r.seq), leftlimit, rightlimit)

CountedNotTallied == act_nlines' = act_nlines + n /\ UNCHANGED <<tallies, counters>>

\* C3 as stated: a read whose window lies entirely outside its length, or whose
\* trimmed sequence is empty, advances act_nlines by n and changes no tally, no
\* histogram, neither the duplicate counter nor the duplicate set.
C3_Original ==
    [][(TookRead /\ ReachedWindow(read')
          /\ (Window(Len(read'.seq)) = {} \/ Len(TrimmedSeq(read')) = 0))
         => CountedNotTallied]_vars

\* C3 as amended: the same, for a rightlimit other than 0 (a cycle, or negative for
\* the read's end); a read whose trimmed sequence is empty is covered for every
\* rightlimit.
C3_EmptyWindowCounted ==
    [][(TookRead /\ ReachedWindow(read')
          /\ ((rightlimit # 0 /\ Window(Len(read'.seq)) = {})
              \/ Len(TrimmedSeq(read')) = 0))
         => CountedNotTallied]_vars

C3_Witness ==
    /\ pc = "loop"
    /\ n = 2
    /\ retained = 1
    /\ taken = 2
    /\ act_nlines = 4
    /\ ReachedWindow(read)
    /\ Len(read.seq) > 0
    /\ leftlimit > Len(read.seq)
    /\ rightlimit = -1
    /\ SumValues(read_len) = 1

\* C4: after any prefix of the stream the counts of the GC histogram sum to the
\* number of retained reads: every read that is not skipped increments one bucket
\* once.
C4_GcHistogramTotal == SumValues(cycle_gc) = retained

C4_Witness ==
    /\ pc = "loop"
    /\ taken = 2
    /\ retained = 1
    /\ \E g \in DOMAIN cycle_gc : g > 0 /\ cycle_gc[g] = 1

\* C5: with duplicate tracking enabled the written duplicate rate is
\* duplicates / total_reads_processed for every stride n >= 1: duplicates is the
\* number of retained reads whose trimmed sequence had been inserted before it was
\* tested, total_reads_processed the number of reads the aggregator took from the
\* sampled stream.  (Stated for the runs in which the duplicate set gave no false
\* positive.)
C5_DuplicateRate ==
    \A i \in DOMAIN text :
        (text[i].block = "duplicate" /\ duplicates = hits)
            => text[i].value.num * taken = hits * text[i].value.den

\* the key the re-keying gives a quality character
Score(q) == IntKey(Ord[q[2]] - 33)

\* the counts of a two-level tally agree, a missing key counting 0
SameCounts(d, e) ==
    \A p \in DOMAIN d \cup DOMAIN e :
        \A k \in DOMAIN Get2Dict(d, p) \cup DOMAIN Get2Dict(e, p) :
            Get2(d, p, k) = Get2(e, p, k)

AfterDerivedStatistics == pc = "report"

\* C6 as stated: Derived Statistics changes no key and no count of any tally: each
\* tally after it equals its value at the end of the aggregation loop.
C6_Original == AfterDerivedStatistics => TallyRecord = loop_end

\* C6 as amended: Derived Statistics changes no count of any tally.  The read-length
\* histogram, the GC histogram and the mismatch tally are untouched; the nucleotide
\* and kmer tallies keep every count and only gain keys whose count is 0; the quality
\* tally keeps its positions and is re-keyed from each quality character to its score
\* ord - 33, under which each count is kept.
C6_CountsKept ==
    AfterDerivedStatistics =>
        /\ read_len = loop_end.read_len
        /\ cycle_gc = loop_end.cycle_gc
        /\ cycle_mismatch = loop_end.cycle_mismatch
        /\ SameCounts(cycle_nuc, loop_end.cycle_nuc)
        /\ SameCounts(cycle_kmers, loop_end.cycle_kmers)
        /\ DOMAIN cycle_qual = DOMAIN loop_end.cycle_qual
        /\ \A p \in DOMAIN cycle_qual :
            /\ DOMAIN cycle_qual[p] = {Score(q) : q \in DOMAIN loop_end.cycle_qual[p]}
            /\ \A q \in DOMAIN loop_end.cycle_qual[p] :
                cycle_qual[p][Score(q)] = loop_end.cycle_qual[p][q]

C6_Witness ==
    /\ AfterDerivedStatistics
    /\ retained >= 2
    /\ \E p \in DOMAIN cycle_qual : Cardinality(DOMAIN cycle_qual[p]) >= 2
    /\ cycle_kmers # loop_end.cycle_kmers
    /\ cycle_nuc # loop_end.cycle_nuc

FatalExit == pc = "exit" /\ exit_msg \in {EmptyInputExit, MissingCapabilityExit}

NothingProcessed ==
    /\ taken = 0 /\ act_nlines = 0 /\ duplicates = 0 /\ bloom_filter = {}
    /\ read_len = <<>> /\ cycle_nuc = <<>> /\ cycle_qual = <<>> /\ cycle_gc = <<>>
    /\ cycle_kmers = <<>> /\ cycle_mismatch = EmptyMismatch
    /\ text = <<>>

LoopBegun == pc \in {"loop", "positions", "report", "done"} \/ taken > 0

\* C7: an empty input (est_nlines = 0) and a requested but unavailable duplicate set
\* both end get_metrics with a fatal exit before the loop starts: the loop never
\* begins under either condition, a fatal exit finds no read taken and no tally,
\* histogram or counter incremented, and there is none once the loop has begun.
C7_FatalBeforeLoop ==
    /\ (est_nlines = 0 \/ (count_duplicates /\ ~pybloom)) => ~LoopBegun
    /\ FatalExit => NothingProcessed
    /\ FatalExit =>
         IF est_nlines = 0 THEN exit_msg = EmptyInputExit
         ELSE count_duplicates /\ ~pybloom /\ exit_msg = MissingCapabilityExit
    /\ (pc \in {"exit", "done"} /\ ~FatalExit) => est_nlines # 0 /\ (count_duplicates => pybloom)

C7_Witness == FatalExit /\ est_nlines # 0 /\ count_duplicates /\ ~pybloom

\* C8: with an estimate est_nlines > 0, the stride is the override binsize when one
\* is given, and max(1, floor(est_nlines / nreads)) otherwise, which is at least 1.
C8_Stride ==
    (pc # "estimate_done" /\ est_nlines > 0) =>
        IF binsize # 0
        THEN n = binsize
        ELSE /\ n >= 1
             /\ \E nf \in 0..est_nlines :
                 /\ nf * nreads <= est_nlines
                 /\ est_nlines < (nf + 1) * nreads
                 /\ n >= nf
                 /\ n \in {1, nf}

C8_Witness ==
    /\ pc = "setup"
    /\ binsize = 0
    /\ n >= 2
    /\ n * nreads < est_nlines

BlockRank ==
    ("reads" :> 1) @@ ("read_len" :> 2) @@ ("quantile" :> 3) @@ ("nuc" :> 4)
    @@ ("pos_gc" :> 5) @@ ("read_gc" :> 6) @@ ("kmer" :> 7) @@ ("duplicate" :> 8)

BlockLines(b) == {i \in DOMAIN text : text[i].block = b}

\* the report got past the block b: a line of a later block follows, or it returned
Completed(b) ==
    \/ pc = "done"
    \/ \E i \in DOMAIN text : BlockRank[text[i].block] > BlockRank[b]

\* C9: the tidy lines come in the fixed block order, no line of a later block before
\* a line of an earlier one: the total read count; the read-length histogram; the
\* quantiles, q05 q25 q50 q75 q95 in that order for each position; the nucleotide
\* counts, one contiguous run per base; the per-position GC%; the GC histogram, 101
\* lines for 0..100 ascending; the kmer ratios in ascending order of ratio; and the
\* duplicate rate last, written only when duplicate tracking is enabled.
C9_ReportOrder ==
    LET Q == BlockLines("quantile")
        N == BlockLines("nuc")
        G == BlockLines("read_gc")
        K == BlockLines("kmer")
        D == BlockLines("duplicate")
        First(S) == CHOOSE i \in S : \A j \in S : i <= j
    IN /\ \A i \in 1..(Len(text) - 1) :
           BlockRank[text[i].block] <= BlockRank[text[i + 1].block]
       /\ text # <<>> => BlockLines("reads") = {1}
       /\ \A i \in Q :
           LET k == i - First(Q)
           IN /\ text[i].column = quantile_columns[(k % 5) + 1]
              /\ (k % 5 # 0) => text[i].pos = text[i - 1].pos
       /\ Completed("quantile") => Cardinality(Q) % 5 = 0
       /\ \A i, k \in N :
           (i < k /\ text[i].column = text[k].column)
               => \A j \in i..k : text[j].column = text[i].column
       /\ \A i \in G : text[i].pos = i - First(G)
       /\ Completed("read_gc") => Cardinality(G) = 101
       /\ \A i \in K : (i + 1) \in K => ~RatioLess(text[i + 1].value, text[i].value)
       /\ \A i \in D : i = Len(text) /\ count_duplicates
       /\ (pc = "done" /\ count_duplicates) => Cardinality(D) = 1

C9_Witness ==
    /\ pc = "done"
    /\ count_duplicates
    /\ text[Len(text)].block = "duplicate"
    /\ Cardinality(bases) >= 2
    /\ Len(positions) >= 2
    /\ \E i, j \in BlockLines("kmer") : RatioLess(text[i].value, text[j].value)

\* the read in sequencing order: reversed when the alignment is on the reverse strand
Sequenced(r, s) == IF r.sam /\ r.reverse THEN [i \in 1..Len(s) |-> s[Len(s) + 1 - i]] ELSE s

RetainedStep == TookRead /\ retained' = retained + 1

\* the loop step tallied exactly the window of the read it took
WindowTallied ==
    LET seq == Sequenced(read', read'.seq)
        qual == Sequenced(read', read'.qual)
        W == Window(Len(seq))
        P == DOMAIN cycle_nuc' \cup DOMAIN cycle_qual' \cup 1..Len(seq)
    IN /\ \A p \in P :
           \A s \in DOMAIN Get2Dict(cycle_nuc', p) \cup {seq[i] : i \in 1..Len(seq)} :
               Get2(cycle_nuc', p, s) =
                   Get2(cycle_nuc, p, s) + (IF p \in W /\ seq[p] = s THEN 1 ELSE 0)
       /\ \A p \in P :
           \A q \in DOMAIN Get2Dict(cycle_qual', p)
                       \cup {ChrKey(qual[i]) : i \in 1..Len(qual)} :
               Get2(cycle_qual', p, q) =
                   Get2(cycle_qual, p, q)
                       + (IF p \in W /\ ChrKey(qual[p]) = q THEN 1 ELSE 0)
       /\ \A k \in DOMAIN read_len' \cup {Cardinality(W)} :
           Get(read_len', k) =
               Get(read_len, k) + (IF k = Cardinality(W) THEN 1 ELSE 0)

\* C10 as stated: for every retained read and every window with leftlimit >= 1, the
\* loop increments nucleotide-by-cycle[p][s] and quality-by-cycle[p][q] exactly for
\* the cycles p with leftlimit <= p <= min(read length, rightlimit), a negative
\* rightlimit meaning the read's end, s and q being the read's p-th base and quality
\* in sequencing order, and increments the read-length histogram once, keyed by the
\* number of cycles in the window.
C10_Original == [][(RetainedStep /\ leftlimit >= 1) => WindowTallied]_vars

\* C10 as amended: the same, for every window with leftlimit >= 1 and a rightlimit
\* other than 0.
C10_WindowTallied ==
    [][(RetainedStep /\ leftlimit >= 1 /\ rightlimit # 0) => WindowTallied]_vars

C10_Witness ==
    /\ pc = "loop"
    /\ read.sam /\ read.reverse
    /\ leftlimit = 2 /\ rightlimit = 2
    /\ taken = 2 /\ retained = 2
    /\ Get2(cycle_nuc, 2, "C") = 2
    /\ Get(read_len, 1) = 2

\* the reference of a mapped read with a readable MD tag, brought to the orientation
\* and the window of the tallied sequence
MappedStep == RetainedStep /\ read'.sam /\ read'.mapped /\ read'.md # "KeyError"

AlignedRef(r) == Trim(Sequenced(r, r.md), leftlimit, rightlimit)

RefBases == {"C", "G", "A", "T"}

\* the loop step tallied exactly the mismatches of the read against the reference
\* base aligned to the same cycle
MismatchTallied ==
    LET seq == TrimmedSeq(read')
        ref == AlignedRef(read')
        m == ZipLen(seq, ref)
        W == leftlimit..(leftlimit + m - 1)
    IN \A r \in RefBases :
         \A p \in DOMAIN cycle_mismatch'[r] \cup W :
           \A s \in DOMAIN Get2Dict(cycle_mismatch'[r], p) \cup {seq[i] : i \in 1..m} :
             Get2(cycle_mismatch'[r], p, s) =
                 Get2(cycle_mismatch[r], p, s)
                   + (IF p \in W /\ ref[p - leftlimit + 1] = r
                           /\ seq[p - leftlimit + 1] = s /\ s # r
                      THEN 1 ELSE 0)

\* C11: for an aligned, mapped read the mismatch tally compares the sequence and the
\* reference cycle by cycle in the orientation and window of the other tallies (the
\* reference reversed with the sequence on a reverse-strand read):
\* mismatch-by-cycle[r][p][s] is incremented exactly when the read's base s at cycle
\* p differs from the reference base r aligned to cycle p, an observation with an
\* unrecognized reference base being dropped.
C11_MismatchAligned == [][MappedStep => MismatchTallied]_vars

\* the report has run: it returned, or an uncaught exception ended it
ReportRan == pc = "done" \/ exit_msg \in {"IndexError", "ZeroDivisionError"}

SameRatio(a, b) == a.num * b.den = b.num * a.den

\* the pos_gc lines written for the cycle p
PosGcLines(p) == {i \in BlockLines("pos_gc") : text[i].pos = p}

\* C12: for every observed cycle p and every window setting, leftlimit > 1 included,
\* the report writes one pos_gc line for p and it carries the GC percentage of that
\* same cycle, 100 * (C+G) / (A+C+G+T) of nucleotide-by-cycle[p], 0 when the
\* denominator is zero; the lookup into the position-GC list neither goes out of
\* range nor returns the value of another cycle.
C12_PosGcIndexing ==
    ReportRan =>
        /\ exit_msg # "IndexError"
        /\ \A k \in 1..Len(positions) :
             /\ Cardinality(PosGcLines(positions[k])) = 1
             /\ \A i \in PosGcLines(positions[k]) :
                  SameRatio(text[i].value, PosGC(Get2Dict(cycle_nuc, positions[k])))

\* the spot ids of an inclusive range <<lo, hi>>
Spots(b) == b[1]..b[2]

\* the ranges of bs that hold the spot id
Holders(bs, id) == {i \in 1..Len(bs) : id \in Spots(bs[i])}

====
